---- MODULE Spec2Model ----
(***************************************************************************)
(* The invoke dispatcher of core/tauri/src/webview/mod.rs                  *)
(* (Webview::on_message), with the one-shot resolver it creates, the       *)
(* local/remote classification of the webview's URL and the remote-access  *)
(* gate it consults.                                                       *)
(*                                                                         *)
(* Strings.  A command string is a sequence of pieces; a piece is the      *)
(* literal text "plugin:", the separator character '|', the text           *)
(* "__TAURI_CHANNEL__", or the letter "a".  No concatenation of the other  *)
(* pieces spells "plugin:" or contains '|', and the pieces decode          *)
(* uniquely, so two sequences are equal exactly when the strings are.      *)
(* starts_with, replace and split are computed on the sequence as the      *)
(* standard library computes them on the string.                           *)
(*                                                                         *)
(* Build.  The program is the desktop build: the #[cfg(mobile)] blocks of  *)
(* on_message are not compiled.  cfg!(dev) is either way.                  *)
(***************************************************************************)
EXTENDS Integers, Sequences, FiniteSets, TLC

(***************************************************************************)
(* Bounds of the model.                                                    *)
(***************************************************************************)
\* completion calls (resolve or reject) a handler makes on its resolver
MaxAttempts == 2

\* event ids the application hands out in one run
MaxListeners == 2

\* pieces of a command string given to the parser
MaxCmdLen == 4

\* keys of a listener table given to has_js_listener
MaxKeys == 2

\* the invoke requests of one run
ReqIds == {1, 2}
\* the request of the runs with one request in flight
SoloIds == {1}

(***************************************************************************)
(* Constants of the program.                                               *)
(***************************************************************************)
PluginPrefix == "plugin:"
Sep == "|"
IPC_SCOPE_DOES_NOT_ALLOW == "Not allowed by the scope"
CHANNEL_PLUGIN_NAME == <<"__TAURI_CHANNEL__">>

\* The command strings a webview sends.  Plugin commands: the "plugin:"
\* prefix, a plugin name, an optional separator and a command name, each
\* part empty or not, in every combination.  Direct commands: no prefix.
PluginNames == {<<>>, <<"a">>, CHANNEL_PLUGIN_NAME}
CommandNames == {<<>>, <<"a">>}

PluginCmds ==
  {<<PluginPrefix>> \o p \o s \o c :
     p \in PluginNames, s \in {<<>>, <<Sep>>}, c \in CommandNames}

DirectCmds == {<<>>, <<"a">>, <<"a", Sep, "a">>}

Cmds == PluginCmds \cup DirectCmds

Webviews == {"main"}

(***************************************************************************)
(* URLs: scheme and domain, the two parts the classification reads.        *)
(***************************************************************************)
Url(s, d) == [scheme |-> s, domain |-> d]

\* manager().get_url(): the URL the application is served from
AppUrl == Url("http", "localhost")
\* manager().protocol_url(): the internal resource protocol
ProtocolUrl == Url("tauri", "localhost")
DevLoopbackUrl == Url("http", "tauri.localhost")
RemoteUrl == Url("https", "remote.com")

\* the URLs a webview navigates to
Urls == {AppUrl, DevLoopbackUrl, RemoteUrl}

\* the origin a request may claim for itself in its headers
Headers == {[origin |-> AppUrl], [origin |-> RemoteUrl]}

(***************************************************************************)
(* Remote-access policies: entries (window label, domain, plugin set).     *)
(***************************************************************************)
Entry(w, d, ps) == [window |-> w, domain |-> d, plugins |-> ps]

Policies ==
  { {},
    {Entry("main", "remote.com", {<<"a">>})},
    {Entry("main", "remote.com", {})},
    {Entry("main", "other.com", {<<"a">>})},
    {Entry("other", "remote.com", {<<"a">>})} }

None == [some |-> FALSE]
Some(v) == [some |-> TRUE, value |-> v]

VARIABLES
  dev,              \* cfg!(dev)
  policy,           \* the remote-access policy, loaded at startup
  invoke_responder, \* whether a process-wide custom responder is configured
  url,              \* the current URL of each webview
  pc,               \* where on_message stands for each request
  req,              \* the request and the locals on_message computed for it
  invoked,          \* the handler call on_message made for the request
  hand,             \* the handler's side: does it hold the resolver, its calls
  slot,             \* the responder slots: TRUE is Some(responder)
  calls,            \* resolve/reject calls made so far, and the first of them
  responses         \* the responses sent to the webview, in order

VARIABLES
  js_event_listeners, \* each webview's table: listener key -> set of event ids
  next_event_id,      \* the application's event id counter
  installed,          \* the listeners installed in each webview's page by scripts
  live,               \* the registrations made by listen_js and not yet unlistened
  last                \* the last call of the listener API, and what it evaluated

VARIABLES
  thread,   \* each thread's call of the listener API and its next step
  lock,     \* the holder of each webview's table lock, or "free"
  returned, \* the ids listen_js returned
  probe     \* the input and the result of one call of a pure function

vars == <<dev, policy, invoke_responder, url, pc, req, invoked, hand, slot,
          calls, responses, js_event_listeners, next_event_id, installed, live,
          last, thread, lock, returned, probe>>

ipcvars == <<dev, policy, invoke_responder, url, pc, req, invoked, hand, slot,
             calls, responses>>

evvars == <<js_event_listeners, next_event_id, installed, live, last>>

auxvars == <<thread, lock, returned, probe>>

config == <<dev, policy, invoke_responder>>

Cells == {"c0", "c1"}
NoRequest == [cmd |-> <<>>]
NotInvoked == [api |-> "none"]
NoCalls == [n |-> 0]

(***************************************************************************)
(* The pure parts of on_message.                                           *)
(***************************************************************************)
\* Url::make_relative(base, u).is_some(): same scheme, host and port
MakeRelative(base, u) == base.scheme = u.scheme /\ base.domain = u.domain

\* mutant: the loopback domain is local in every build
IsLocalUrlLoopbackAlways(current_url) ==
  \/ MakeRelative(AppUrl, current_url)
  \/ (current_url.scheme = ProtocolUrl.scheme /\ current_url.domain = ProtocolUrl.domain)
  \/ current_url.domain = "tauri.localhost"

IsLocalUrl(current_url) ==
  \/ MakeRelative(AppUrl, current_url)
  \/ (current_url.scheme = ProtocolUrl.scheme /\ current_url.domain = ProtocolUrl.domain)
  \/ (dev /\ current_url.domain = "tauri.localhost")

\* ipc_scope().remote_access_for(webview, url)
RemoteAccessFor(label, u) ==
  LET matches_window == \E e \in policy : e.window = label
      found == {e \in policy : e.window = label /\ e.domain = u.domain}
      matches_domain ==
        IF matches_window THEN found # {}
        ELSE \E e \in policy : e.domain = u.domain
  IN IF found # {}
     THEN [ok |-> TRUE, plugins |-> (CHOOSE e \in found : TRUE).plugins]
     ELSE [ok |-> FALSE, matches_window |-> matches_window,
           matches_domain |-> matches_domain]

ipc_scope_not_found_error_message(label, u) ==
  [text |-> "Scope not defined for window and URL", label |-> label, url |-> u]

ipc_scope_window_error_message(label) ==
  [text |-> "Scope not defined for window", label |-> label]

ipc_scope_domain_error_message(u) ==
  [text |-> "Scope not defined for URL", url |-> u]

\* mutant: one text for every denial
ScopeNotFoundMessageGeneric(is_local, access, label, u) ==
  ipc_scope_not_found_error_message(label, u)

\* mutant: the two single-axis texts exchanged
ScopeNotFoundMessageSwapped(is_local, access, label, u) ==
  IF is_local \/ access.ok THEN ipc_scope_not_found_error_message(label, u)
  ELSE IF access.matches_window THEN ipc_scope_window_error_message(label)
  ELSE IF access.matches_domain THEN ipc_scope_domain_error_message(u)
  ELSE ipc_scope_not_found_error_message(label, u)

\* the message on_message prepares for a denial (the `let mut` and its two
\* reassignments)
ScopeNotFoundMessage(is_local, access, label, u) ==
  IF is_local \/ access.ok THEN ipc_scope_not_found_error_message(label, u)
  ELSE IF access.matches_window THEN ipc_scope_domain_error_message(u)
  ELSE IF access.matches_domain THEN ipc_scope_window_error_message(label)
  ELSE ipc_scope_not_found_error_message(label, u)

\* mutant: a denial becomes an empty scope instead of no scope
OnMessageScopeFailOpen(is_local, access) ==
  IF is_local THEN None
  ELSE Some(IF access.ok THEN access.plugins ELSE {})

\* `let scope = if is_local { None } else { match remote_access_for .. }`
OnMessageScope(is_local, access) ==
  IF is_local THEN None
  ELSE IF access.ok THEN Some(access.plugins) ELSE None

\* mutants of the gate condition: never denying; denying local origins too
GateDeniesNever(is_local, scope) == FALSE
GateDeniesLocalToo(is_local, scope) == ~scope.some

\* `!is_local && scope.is_none()`
GateDenies(is_local, scope) == ~is_local /\ ~scope.some

StartsWith(s, p) == Len(s) > 0 /\ s[1] = p

\* str::replace("plugin:", ""): every occurrence removed
Replace(s) == SelectSeq(s, LAMBDA c : c # PluginPrefix)

FirstSep(s) ==
  IF \E k \in 1..Len(s) : s[k] = Sep
  THEN CHOOSE k \in 1..Len(s) : s[k] = Sep /\ \A j \in 1..(k - 1) : s[j] # Sep
  ELSE 0

\* str::split('|'): the pieces between separators, at least one
RECURSIVE Split(_)
Split(s) ==
  LET k == FirstSep(s)
  IN IF k = 0 THEN <<s>>
     ELSE <<SubSeq(s, 1, k - 1)>> \o Split(SubSeq(s, k + 1, Len(s)))

\* `tokens.next().unwrap()`
PluginOf(cmd) == Split(Replace(cmd))[1]

\* mutant: without a second token the command falls back to the first
CommandOfFirstToken(cmd) ==
  LET tokens == Split(Replace(cmd))
  IN IF Len(tokens) >= 2 THEN tokens[2] ELSE tokens[1]

\* `tokens.next().map(|c| c.to_string()).unwrap_or_else(String::new)`
CommandOf(cmd) ==
  LET tokens == Split(Replace(cmd))
  IN IF Len(tokens) >= 2 THEN tokens[2] ELSE <<>>

\* mutant: the command keeps the plugin prefix
MessageCommandRaw(cmd) == cmd

\* the command of invoke.message when the handler is called
MessageCommand(cmd) ==
  IF StartsWith(cmd, PluginPrefix) THEN CommandOf(cmd) ELSE cmd

\* mutant: the plugin set of the scope is not looked at
PluginPermittedAnyPlugin(is_local, plugin, scope) == TRUE

\* the condition whose negation rejects a plugin command
\* mutant: the empty plugin name is let through
PluginPermittedEmptyName(is_local, plugin, scope) ==
  \/ is_local
  \/ plugin = CHANNEL_PLUGIN_NAME
  \/ plugin = <<>>
  \/ (IF scope.some THEN plugin \in scope.value ELSE TRUE)

\* mutant: the plugin permission is asked of every command
ChecksPluginEveryCommand(cmd) == TRUE

\* the permission test stands inside the branch of the commands that start
\* with "plugin:"
ChecksPlugin(cmd) == StartsWith(cmd, PluginPrefix)

\* mutant: the channel pseudo-plugin is held to the plugin set like any other
PluginPermittedNoExemption(is_local, plugin, scope) ==
  \/ is_local
  \/ (IF scope.some THEN plugin \in scope.value ELSE TRUE)

PluginPermitted(is_local, plugin, scope) ==
  \/ is_local
  \/ plugin = CHANNEL_PLUGIN_NAME
  \/ (IF scope.some THEN plugin \in scope.value ELSE TRUE)

\* format!("Command {command} not found")
NotFoundMessage(command) == [text |-> "Command {} not found", command |-> command]

(***************************************************************************)
(* The resolver.                                                           *)
(***************************************************************************)
\* mutant: the two callback ids passed in the wrong order
InvokeResolverNewSwapped(cmd, callback, error) ==
  [cell |-> "c0", cmd |-> cmd, callback |-> error, error |-> callback]

\* mutant: one slot for every request
ResponderSlotShared(i) == 1

\* Arc::new(Mutex::new(Some(Box::new(..)))): each call of on_message makes
\* the slot of its request
ResponderSlot(i) == i

\* InvokeResolver::new(webview, Arc::new(Mutex::new(Some(..))), cmd, callback, error)
InvokeResolverNew(cmd, callback, error) ==
  [cell |-> "c0", cmd |-> cmd, callback |-> callback, error |-> error]

\* mutant: the clone gets a slot of its own
CloneResolverOwnSlot(resolver) == [resolver EXCEPT !.cell = "c1"]

\* resolver.clone(): the clone shares the slot
CloneResolver(resolver) == resolver

\* one call of a responder with the arguments the closure was given
ResponderCall(which, resolver, kind, payload) ==
  [responder |-> which, cmd |-> resolver.cmd, kind |-> kind, payload |-> payload,
   callback |-> resolver.callback, error |-> resolver.error]

\* the responders a response went through, in order
Ran(resolver, kind, payload) ==
  (IF invoke_responder
   THEN <<ResponderCall("custom", resolver, kind, payload)>> ELSE <<>>)
  \o <<ResponderCall("default", resolver, kind, payload)>>

\* mutant: the custom responder is called after the transport's responder
RespondCustomLast(resolver, kind, payload) ==
  [kind |-> kind,
   callback |-> IF kind = "Ok" THEN resolver.callback ELSE resolver.error,
   payload |-> payload,
   cmd |-> resolver.cmd,
   ran |-> <<ResponderCall("default", resolver, kind, payload)>> \o
           (IF invoke_responder
            THEN <<ResponderCall("custom", resolver, kind, payload)>> ELSE <<>>)]

\* the closure put in the slot: the custom responder, if any, observes the
\* response, then the transport's responder sends it
Respond(resolver, kind, payload) ==
  [kind |-> kind,
   callback |-> IF kind = "Ok" THEN resolver.callback ELSE resolver.error,
   payload |-> payload,
   cmd |-> resolver.cmd,
   ran |-> Ran(resolver, kind, payload)]

\* InvokeResolver::resolve / reject, called by `by` for request i: take the
\* slot the resolver points to, and respond if it was full
Complete(i, resolver, kind, payload, by) ==
  /\ slot' = [slot EXCEPT ![resolver.slot][resolver.cell] = FALSE]
  /\ responses' =
       IF slot[resolver.slot][resolver.cell]
       THEN [responses EXCEPT ![i] = Append(@, Respond(resolver, kind, payload))]
       ELSE responses
  /\ calls' = [calls EXCEPT ![i] =
       IF @.n = 0 THEN [n |-> 1, kind |-> kind, by |-> by, payload |-> payload]
       ELSE [@ EXCEPT !.n = @ + 1]]

\* the callback ids the webview allocated for request i
CallbackOf(i) == 2 * i - 1
ErrorOf(i) == 2 * i

\* reject(value): the value as the payload of the response
Message(text) == [text |-> text]
HandlerValue == [text |-> "handler value"]

(***************************************************************************)
(* The handlers on_message calls (extend_api, run_invoke_handler) belong   *)
(* to plugins and to the application.  A call returns `handled`; the       *)
(* handler may keep the Invoke, and with it a clone of the resolver.  An   *)
(* empty command name matches no handler.                                  *)
(***************************************************************************)
HandledChoices(command) == IF command = <<>> THEN {FALSE} ELSE BOOLEAN

\* mutant: the origin is taken from the request's headers
CurrentUrlFromRequest(webview_url, request) == request.headers.origin

\* self.url(): dispatcher.url().unwrap()
CurrentUrl(webview_url, request) == webview_url

(***************************************************************************)
(* The listener table of a webview.  A key is (source, event); the sources *)
(* are Global, Window{label} and Webview{label}.  Each webview of these    *)
(* runs sits in the window of its own label.                               *)
(***************************************************************************)
EvWebviews == {"main", "other"}
WindowLabel(w) == w

\* the handles of the webviews: one per webview as Webview::new made it, and
\* a clone of the handle of "main"
Handles ==
  {[webview |-> w, clone |-> FALSE] : w \in EvWebviews}
    \cup {[webview |-> "main", clone |-> TRUE]}

\* mutant: every handle points at one table
TableOfOneForAll(h) == "main"

\* the table a handle points at: Webview::new gives each webview a table of
\* its own, Clone shares the Arc
TableOf(h) == h.webview

Global == [kind |-> "Global", label |-> ""]
WindowSource(l) == [kind |-> "Window", label |-> l]
WebviewSource(l) == [kind |-> "Webview", label |-> l]
\* the labels the sources of these runs name
SourceLabels == {"main"}
Sources == {Global} \cup {WindowSource(l) : l \in SourceLabels}
                    \cup {WebviewSource(l) : l \in SourceLabels}
Events == {"ping", "pong"}

JsEventListenerKey(source, event) == [source |-> source, event |-> event]

FirstEventId == 1

\* listeners().next_event_id(): the value of the shared counter, which moves
\* on by one
NextEventId(counter) == [id |-> counter, counter |-> counter + 1]
EventIds == FirstEventId .. MaxListeners

NoListeners == <<>>
NoCall == [call |-> "none"]
Handler == "cb"

\* the ids a table holds
IdsOf(listeners) == UNION {listeners[k] : k \in DOMAIN listeners}

\* mutant: the id replaces the set of the key
ListenInsertReplacing(listeners, key, id) ==
  [k \in DOMAIN listeners \cup {key} |-> IF k = key THEN {id} ELSE listeners[k]]

\* js_event_listeners.entry(key).or_default().insert(event_id)
ListenInsert(listeners, key, id) ==
  [k \in DOMAIN listeners \cup {key} |->
     IF k = key
     THEN (IF key \in DOMAIN listeners THEN listeners[key] ELSE {}) \cup {id}
     ELSE listeners[k]]

\* mutant: the id is looked for under the keys of the event only
UnlistenRemoveEventKeyed(listeners, event, id) ==
  LET found == {k \in DOMAIN listeners : k.event = event /\ id \in listeners[k]}
  IN [k \in {x \in DOMAIN listeners : ~(x \in found /\ listeners[x] = {id})} |->
        IF k \in found THEN listeners[k] \ {id} ELSE listeners[k]]

\* mutant: the key of the id leaves the table with all its ids
UnlistenRemoveWholeKey(listeners, event, id) ==
  [k \in {x \in DOMAIN listeners : id \notin listeners[x]} |-> listeners[k]]

\* mutant: the set is emptied but its key is kept
UnlistenRemoveKeepsKey(listeners, event, id) ==
  [k \in DOMAIN listeners |-> listeners[k] \ {id}]

\* mutant: an id that is not found clears the keys of the event
UnlistenRemoveOrClearEvent(listeners, event, id) ==
  IF id \in IdsOf(listeners)
  THEN [k \in {x \in DOMAIN listeners : listeners[x] # {id}} |-> listeners[k] \ {id}]
  ELSE [k \in {x \in DOMAIN listeners : x.event # event} |-> listeners[k]]

\* the table part of unlisten_js: the id leaves the first set that holds it
\* (an id is in one set at most), and the key leaves with its last id; the
\* event does not take part
UnlistenRemove(listeners, event, id) ==
  LET found == {k \in DOMAIN listeners : id \in listeners[k]}
  IN IF found = {} THEN listeners
     ELSE LET key == CHOOSE k \in found : TRUE
              empty == IF listeners[key] \ {id} = {} THEN {key} ELSE {}
          IN [k \in DOMAIN listeners \ empty |->
                IF k = key THEN listeners[k] \ {id} ELSE listeners[k]]

\* mutant: every emission is answered true
HasJsListenerAlways(listeners, window_label, source, event) == TRUE

\* mutant: the window arm without the Global key
HasJsListenerNoGlobalKey(listeners, window_label, source, event) ==
  IF source.kind = "Global"
  THEN \E k \in DOMAIN listeners : k.event = event
  ELSE IF source.kind = "Window" /\ source.label = window_label
  THEN \/ JsEventListenerKey(source, event) \in DOMAIN listeners
       \/ JsEventListenerKey(WebviewSource(source.label), event) \in DOMAIN listeners
  ELSE \/ JsEventListenerKey(source, event) \in DOMAIN listeners
       \/ JsEventListenerKey(Global, event) \in DOMAIN listeners

\* mutant: the window arm without the Webview{label} key
HasJsListenerNoCascade(listeners, window_label, source, event) ==
  IF source.kind = "Global"
  THEN \E k \in DOMAIN listeners : k.event = event
  ELSE \/ JsEventListenerKey(source, event) \in DOMAIN listeners
       \/ JsEventListenerKey(Global, event) \in DOMAIN listeners

\* mutant: the window arm taken for a window of any label
HasJsListenerAnyWindow(listeners, window_label, source, event) ==
  IF source.kind = "Global"
  THEN \E k \in DOMAIN listeners : k.event = event
  ELSE IF source.kind = "Window"
  THEN \/ JsEventListenerKey(source, event) \in DOMAIN listeners
       \/ JsEventListenerKey(WebviewSource(source.label), event) \in DOMAIN listeners
       \/ JsEventListenerKey(Global, event) \in DOMAIN listeners
  ELSE \/ JsEventListenerKey(source, event) \in DOMAIN listeners
       \/ JsEventListenerKey(Global, event) \in DOMAIN listeners

\* mutant: a global emission matches the Global key only
HasJsListenerGlobalKeyOnly(listeners, window_label, source, event) ==
  IF source.kind = "Global"
  THEN JsEventListenerKey(Global, event) \in DOMAIN listeners
  ELSE IF source.kind = "Window" /\ source.label = window_label
  THEN \/ JsEventListenerKey(source, event) \in DOMAIN listeners
       \/ JsEventListenerKey(WebviewSource(source.label), event) \in DOMAIN listeners
       \/ JsEventListenerKey(Global, event) \in DOMAIN listeners
  ELSE \/ JsEventListenerKey(source, event) \in DOMAIN listeners
       \/ JsEventListenerKey(Global, event) \in DOMAIN listeners

\* Webview::has_js_listener, on the table of a webview in the window
\* `window_label`
HasJsListener(listeners, window_label, source, event) ==
  IF source.kind = "Global"
  THEN \E k \in DOMAIN listeners : k.event = event
  ELSE IF source.kind = "Window" /\ source.label = window_label
  THEN \/ JsEventListenerKey(source, event) \in DOMAIN listeners
       \/ JsEventListenerKey(WebviewSource(source.label), event) \in DOMAIN listeners
       \/ JsEventListenerKey(Global, event) \in DOMAIN listeners
  ELSE \/ JsEventListenerKey(source, event) \in DOMAIN listeners
       \/ JsEventListenerKey(Global, event) \in DOMAIN listeners

\* the scripts the listener API evaluates, by the arguments they are built from
ListenScript(event, event_id, source, handler) ==
  [script |-> "listen", event |-> event, id |-> event_id, source |-> source,
   handler |-> handler]
UnlistenScript(event, id) == [script |-> "unlisten", event |-> event, id |-> id]
EmitScript(source, event) == [script |-> "emit", event |-> event, source |-> source]

\* what a script does to the listeners installed in the page
Evaluated(page, script) ==
  IF script.script = "listen"
  THEN page \cup {[id |-> script.id, event |-> script.event]}
  ELSE IF script.script = "unlisten"
  THEN {l \in page : ~(l.id = script.id /\ l.event = script.event)}
  ELSE page

\* eval(..)?; ..; Ok(event_id)
ListenJsResult(eval_ok) == IF eval_ok THEN "Ok" ELSE "Err"

\* eval(..)?; ..; Ok(())
UnlistenJsResult(eval_ok, found) == IF eval_ok THEN "Ok" ELSE "Err"

EventsIdle ==
  /\ js_event_listeners = [w \in EvWebviews |-> NoListeners]
  /\ next_event_id = FirstEventId
  /\ installed = [w \in EvWebviews |-> {}]
  /\ live = {}
  /\ last = NoCall

\* the threads that call the listener API of a webview at the same time
Threads == {"t1", "t2"}
IdleThread == [op |-> "idle"]
NoProbe == [fn |-> "none"]

ThreadsIdle ==
  /\ thread = [t \in Threads |-> IdleThread]
  /\ lock = [w \in EvWebviews |-> "free"]
  /\ returned = {}

\* no request has arrived
NoRequests ==
  /\ pc = [i \in ReqIds |-> "idle"]
  /\ req = [i \in ReqIds |-> NoRequest]
  /\ invoked = [i \in ReqIds |-> NotInvoked]
  /\ hand = [i \in ReqIds |-> [holds |-> FALSE, attempts |-> 0]]
  /\ slot = [i \in ReqIds |-> [c \in Cells |-> TRUE]]
  /\ calls = [i \in ReqIds |-> NoCalls]
  /\ responses = [i \in ReqIds |-> <<>>]

Init ==
  /\ EventsIdle
  /\ ThreadsIdle
  /\ probe = NoProbe
  /\ dev \in BOOLEAN
  /\ policy \in Policies
  /\ invoke_responder \in BOOLEAN
  /\ url \in [Webviews -> Urls]
  /\ NoRequests

\* Webview::navigate
Navigate(w, u) ==
  /\ url' = [url EXCEPT ![w] = u]
  /\ UNCHANGED <<config, pc, req, invoked, hand, slot, calls, responses>>
  /\ UNCHANGED evvars
  /\ UNCHANGED auxvars

\* on_message when dispatcher.url() fails: the unwrap in Webview::url panics
\* before anything else is done
OnMessageUrlError(i, w, request) ==
  /\ pc[i] = "idle"
  /\ pc' = [pc EXCEPT ![i] = "panicked"]
  /\ req' = [req EXCEPT ![i] = [cmd |-> request.cmd, headers |-> request.headers,
                                callback |-> request.callback, error |-> request.error,
                                webview |-> w]]
  /\ UNCHANGED <<config, url, invoked, hand, slot, calls, responses>>
  /\ UNCHANGED evvars
  /\ UNCHANGED auxvars

\* on_message, from its entry to the return of the handler call (or to its
\* return, on the two rejections that come before a handler is called)
OnMessage(i, w, request, handled, holds) ==
  LET current_url == CurrentUrl(url[w], request)
      is_local == IsLocalUrl(current_url)
      access == RemoteAccessFor(w, current_url)
      scope_not_found_error_message == ScopeNotFoundMessage(is_local, access, w, current_url)
      scope == OnMessageScope(is_local, access)
      resolver == InvokeResolverNew(request.cmd, request.callback, request.error)
                    @@ [slot |-> ResponderSlot(i)]
      invoke_resolver == CloneResolver(resolver)
      is_plugin == StartsWith(request.cmd, PluginPrefix)
      plugin == PluginOf(request.cmd)
      command == MessageCommand(request.cmd)
      locals == [cmd |-> request.cmd, headers |-> request.headers,
                 callback |-> request.callback, error |-> request.error,
                 webview |-> w, webview_url |-> url[w], current_url |-> current_url,
                 is_local |-> is_local, consulted |-> ~is_local, scope |-> scope,
                 resolver |-> resolver, invoke_resolver |-> invoke_resolver]
  IN /\ pc[i] = "idle"
     /\ IF GateDenies(is_local, scope)
        THEN /\ Complete(i, invoke_resolver, "Err", scope_not_found_error_message, "dispatcher")
             /\ pc' = [pc EXCEPT ![i] = "returned"]
             /\ req' = [req EXCEPT ![i] = locals]
             /\ UNCHANGED <<invoked, hand>>
        ELSE IF ChecksPlugin(request.cmd) /\ ~PluginPermitted(is_local, plugin, scope)
        THEN /\ Complete(i, invoke_resolver, "Err", Message(IPC_SCOPE_DOES_NOT_ALLOW), "dispatcher")
             /\ pc' = [pc EXCEPT ![i] = "returned"]
             /\ req' = [req EXCEPT ![i] = locals]
             /\ UNCHANGED <<invoked, hand>>
        ELSE /\ handled \in HandledChoices(command)
             /\ invoked' = [invoked EXCEPT ![i] =
                  IF is_plugin
                  THEN [api |-> "extend_api", plugin |-> plugin, command |-> command]
                  ELSE [api |-> "run_invoke_handler", command |-> command]]
             /\ hand' = [hand EXCEPT ![i] = [holds |-> holds, attempts |-> 0]]
             /\ pc' = [pc EXCEPT ![i] = "dispatched"]
             /\ req' = [req EXCEPT ![i] = [locals EXCEPT !.cmd = request.cmd] @@
                                          [command |-> command, handled |-> handled]]
             /\ UNCHANGED <<slot, calls, responses>>
     /\ UNCHANGED <<config, url>>
     /\ UNCHANGED evvars
     /\ UNCHANGED auxvars
  /\ UNCHANGED auxvars

\* the end of on_message after the handler call returned:
\* `if !handled { resolver.reject(format!("Command {command} not found")) }`
OnMessageReturn(i) ==
  /\ pc[i] = "dispatched"
  /\ pc' = [pc EXCEPT ![i] = "returned"]
  /\ IF ~req[i].handled
     THEN Complete(i, req[i].resolver, "Err", NotFoundMessage(req[i].command), "dispatcher")
     ELSE UNCHANGED <<slot, calls, responses>>
  /\ UNCHANGED <<config, url, req, invoked, hand>>
  /\ UNCHANGED evvars
  /\ UNCHANGED auxvars

\* the handler, on any thread, calls resolve or reject on (a clone of) the
\* resolver of the Invoke it was given
HandlerCompletes(i, kind) ==
  /\ hand[i].holds
  /\ hand[i].attempts < MaxAttempts
  /\ hand' = [hand EXCEPT ![i].attempts = @ + 1]
  /\ Complete(i, req[i].invoke_resolver, kind, HandlerValue, "handler")
  /\ UNCHANGED <<config, url, pc, req, invoked>>
  /\ UNCHANGED evvars
  /\ UNCHANGED auxvars

Requests(i) ==
  {[cmd |-> c, headers |-> h, callback |-> CallbackOf(i), error |-> ErrorOf(i)] :
     c \in Cmds, h \in Headers}

Next ==
  \/ \E w \in Webviews, u \in Urls : Navigate(w, u)
  \/ \E i \in SoloIds, w \in Webviews : \E request \in Requests(i) :
       OnMessageUrlError(i, w, request)
  \/ \E i \in SoloIds, w \in Webviews, handled, holds \in BOOLEAN :
       \E request \in Requests(i) : OnMessage(i, w, request, handled, holds)
  \/ \E i \in SoloIds : OnMessageReturn(i)
  \/ \E i \in SoloIds, kind \in {"Ok", "Err"} : HandlerCompletes(i, kind)

Spec == Init /\ [][Next]_vars

(***************************************************************************)
(* Two requests in flight, on one configuration and a few commands.        *)
(***************************************************************************)
ConcCmds == {<<"a">>, <<>>, <<PluginPrefix, "a", Sep, "a">>}
ConcPolicies == {{}, {Entry("main", "remote.com", {<<"a">>})}}

ConcRequests(i) ==
  {[cmd |-> c, headers |-> [origin |-> AppUrl], callback |-> CallbackOf(i),
    error |-> ErrorOf(i)] : c \in ConcCmds}

InitConc ==
  /\ Init
  /\ ~dev
  /\ ~invoke_responder
  /\ policy \in ConcPolicies
  /\ url = [w \in Webviews |-> RemoteUrl]

NextConc ==
  \/ \E w \in Webviews, u \in {AppUrl, RemoteUrl} : Navigate(w, u)
  \/ \E i \in ReqIds, w \in Webviews : \E request \in ConcRequests(i) :
       OnMessageUrlError(i, w, request)
  \/ \E i \in ReqIds, w \in Webviews, handled, holds \in BOOLEAN :
       \E request \in ConcRequests(i) : OnMessage(i, w, request, handled, holds)
  \/ \E i \in ReqIds : OnMessageReturn(i)
  \/ \E i \in ReqIds, kind \in {"Ok", "Err"} : HandlerCompletes(i, kind)

SpecConc == InitConc /\ [][NextConc]_vars

(***************************************************************************)
(* The parsing of a command by on_message, on every string of pieces up to *)
(* a length.                                                               *)
(***************************************************************************)
SeqsUpTo(S, n) == UNION {[1 .. k -> S] : k \in 0 .. n}
CmdStrings == SeqsUpTo({PluginPrefix, Sep, "a"}, MaxCmdLen)

\* an application on its configured URL, nothing received yet
Quiet ==
  /\ EventsIdle
  /\ ThreadsIdle
  /\ dev = FALSE
  /\ invoke_responder = FALSE
  /\ policy = {}
  /\ url = [w \in Webviews |-> AppUrl]
  /\ NoRequests

InitParse ==
  /\ Quiet
  /\ probe \in {[fn |-> "on_message", cmd |-> c, done |-> FALSE] : c \in CmdStrings}

\* the branch of on_message taken for the command, and the plugin and
\* command names it passes on
ParseCommand ==
  /\ probe.fn = "on_message"
  /\ ~probe.done
  /\ probe' =
       IF StartsWith(probe.cmd, PluginPrefix)
       THEN [fn |-> "on_message", cmd |-> probe.cmd, done |-> TRUE,
             api |-> "extend_api", plugin |-> PluginOf(probe.cmd),
             command |-> MessageCommand(probe.cmd)]
       ELSE [fn |-> "on_message", cmd |-> probe.cmd, done |-> TRUE,
             api |-> "run_invoke_handler", plugin |-> <<>>,
             command |-> MessageCommand(probe.cmd)]
  /\ UNCHANGED <<ipcvars, evvars, thread, lock, returned>>

NextParse == ParseCommand

SpecParse == InitParse /\ [][NextParse]_vars

(***************************************************************************)
(* The classification of a URL by is_local_url, on every URL of a few      *)
(* schemes and domains, in both builds.                                    *)
(***************************************************************************)
ProbeSchemes == {"http", "https", "tauri", "ipc", "file"}
ProbeDomains == {"localhost", "tauri.localhost", "asset.localhost", "remote.com",
                 "other.com", ""}
ProbeUrls == {Url(sc, d) : sc \in ProbeSchemes, d \in ProbeDomains}

InitLocal ==
  /\ EventsIdle
  /\ ThreadsIdle
  /\ dev \in BOOLEAN
  /\ invoke_responder = FALSE
  /\ policy = {}
  /\ url = [w \in Webviews |-> AppUrl]
  /\ NoRequests
  /\ probe \in {[fn |-> "is_local_url", url |-> u, done |-> FALSE] : u \in ProbeUrls}

\* is_local_url called on the URL
ClassifyUrl ==
  /\ probe.fn = "is_local_url"
  /\ ~probe.done
  /\ probe' = [fn |-> "is_local_url", url |-> probe.url, done |-> TRUE,
               is_local |-> IsLocalUrl(probe.url)]
  /\ UNCHANGED <<ipcvars, evvars, thread, lock, returned>>

NextLocal == ClassifyUrl

SpecLocal == InitLocal /\ [][NextLocal]_vars

(***************************************************************************)
(* has_js_listener on every table of a few keys, the keys drawn from the   *)
(* sources of both labels, for a webview in the window of either label.    *)
(***************************************************************************)
ProbeSources == {Global} \cup {WindowSource(l) : l \in EvWebviews}
                         \cup {WebviewSource(l) : l \in EvWebviews}
ProbeKeys == {JsEventListenerKey(so, e) : so \in ProbeSources, e \in Events}

\* a table with the keys K: each key holds one id of its own
TableOfKeys(K) ==
  LET ids == CHOOSE f \in [K -> 1 .. Cardinality(K)] :
               \A a, b \in K : a # b => f[a] # f[b]
  IN [k \in K |-> {ids[k]}]

ProbeTables ==
  {TableOfKeys(K) : K \in {X \in SUBSET ProbeKeys : Cardinality(X) <= MaxKeys}}

InitMatch ==
  /\ Quiet
  /\ probe \in {[fn |-> "has_js_listener", listeners |-> t, window |-> l,
                  source |-> so, event |-> e, done |-> FALSE] :
                   t \in ProbeTables, l \in EvWebviews, so \in ProbeSources,
                   e \in Events}

\* has_js_listener called on a webview of window `window` holding the table
MatchListener ==
  /\ probe.fn = "has_js_listener"
  /\ ~probe.done
  /\ probe' = [probe EXCEPT !.done = TRUE] @@
               [matched |-> HasJsListener(probe.listeners, probe.window,
                                          probe.source, probe.event)]
  /\ UNCHANGED <<ipcvars, evvars, thread, lock, returned>>

NextMatch == MatchListener

SpecMatch == InitMatch /\ [][NextMatch]_vars

(***************************************************************************)
(* The listener API of a webview: listen_js, unlisten_js, and an emission  *)
(* to the webviews (has_js_listener, then emit_js).  eval fails when the    *)
(* runtime cannot reach the webview.                                       *)
(***************************************************************************)
\* Webview::listen_js
ListenJs(h, source, event, eval_ok) ==
  LET w == TableOf(h)
      event_id == NextEventId(next_event_id).id
      script == ListenScript(event, event_id, source, Handler)
      key == JsEventListenerKey(source, event)
  IN /\ next_event_id <= MaxListeners
     /\ next_event_id' = NextEventId(next_event_id).counter
     /\ IF eval_ok
        THEN /\ installed' = [installed EXCEPT ![w] = Evaluated(@, script)]
             /\ js_event_listeners' =
                  [js_event_listeners EXCEPT ![w] = ListenInsert(@, key, event_id)]
             /\ live' = live \cup {[w |-> w, id |-> event_id, source |-> source,
                                     event |-> event]}
        ELSE UNCHANGED <<installed, js_event_listeners, live>>
     /\ last' = [call |-> "listen_js", w |-> h.webview,
                 result |-> ListenJsResult(eval_ok)]
     /\ UNCHANGED ipcvars
     /\ UNCHANGED auxvars

\* Webview::unlisten_js
UnlistenJs(h, event, id, eval_ok) ==
  LET w == TableOf(h)
      script == UnlistenScript(event, id)
      found == id \in IdsOf(js_event_listeners[w])
  IN /\ IF eval_ok
        THEN /\ installed' = [installed EXCEPT ![w] = Evaluated(@, script)]
             /\ js_event_listeners' =
                  [js_event_listeners EXCEPT ![w] = UnlistenRemove(@, event, id)]
             /\ live' = {l \in live : ~(l.w = w /\ l.id = id)}
        ELSE UNCHANGED <<installed, js_event_listeners, live>>
     /\ last' = [call |-> "unlisten_js", w |-> h.webview, id |-> id, found |-> found,
                 evaluated |-> eval_ok, result |-> UnlistenJsResult(eval_ok, found)]
     /\ UNCHANGED <<next_event_id>>
     /\ UNCHANGED ipcvars
     /\ UNCHANGED auxvars

\* an emission of (source, event): emit_js is called on each webview for
\* which has_js_listener is true, and evaluates the emit script there
Emit(source, event) ==
  LET script == EmitScript(source, event)
      matched(w) == HasJsListener(js_event_listeners[w], WindowLabel(w), source, event)
  IN /\ last' = [call |-> "emit", source |-> source, event |-> event,
                 scripts |-> [w \in EvWebviews |->
                                IF matched(w) THEN <<script>> ELSE <<>>]]
     /\ UNCHANGED <<installed, js_event_listeners, live, next_event_id>>
     /\ UNCHANGED ipcvars
     /\ UNCHANGED auxvars

InitEvents ==
  /\ Init
  /\ ~dev
  /\ ~invoke_responder
  /\ policy = {}
  /\ url = [w \in Webviews |-> AppUrl]

NextEvents ==
  \/ \E h \in Handles, source \in Sources, event \in Events, eval_ok \in BOOLEAN :
       ListenJs(h, source, event, eval_ok)
  \/ \E h \in Handles, event \in Events, id \in EventIds, eval_ok \in BOOLEAN :
       UnlistenJs(h, event, id, eval_ok)
  \/ \E source \in Sources, event \in Events : Emit(source, event)

SpecEvents == InitEvents /\ [][NextEvents]_vars

(***************************************************************************)
(* The listener API called from several threads.  Each call goes through   *)
(* its steps in the order of the function's statements; the steps of the   *)
(* threads interleave, a thread waits at "lock" while another one holds    *)
(* the lock of the table.  The scripts of a webview are evaluated in the   *)
(* order of the eval calls.                                                *)
(***************************************************************************)
ThreadSources == {Global}
ThreadEvents == {"ping"}

\* mutant: listen_js inserts the id before it evaluates the install script
ListenJsStepsInsertFirst == <<"next_event_id", "lock", "insert", "eval">>

\* mutant: listen_js takes no id from the counter
ListenJsStepsNoNewId == <<"eval", "lock", "insert">>

\* mutant: listen_js evaluates its script under the lock
ListenJsStepsEvalLocked == <<"next_event_id", "lock", "eval", "insert">>

\* the statements of listen_js, of unlisten_js, and of an emission to one
\* webview (has_js_listener, then emit_js if it answered true)
ListenJsSteps == <<"next_event_id", "eval", "lock", "insert">>
UnlistenJsSteps == <<"eval", "lock", "remove">>
EmissionSteps == <<"lock", "match", "eval">>

StepsOf(op) ==
  IF op = "listen_js" THEN ListenJsSteps
  ELSE IF op = "unlisten_js" THEN UnlistenJsSteps
  ELSE IF op = "emit" THEN EmissionSteps
  ELSE <<>>

Busy(t) == thread[t].op # "idle"
StepOf(t) == IF Busy(t) THEN StepsOf(thread[t].op)[thread[t].pc] ELSE "none"
LastStep(t) == thread[t].pc = Len(StepsOf(thread[t].op))

\* the lock of the table of w once thread t has dropped its guard
Unlocked(t, w) == [lock EXCEPT ![w] = IF @ = t THEN "free" ELSE @]

\* thread t goes on to its next statement, or returns after its last one
Advance(t, rec) ==
  IF LastStep(t) THEN [thread EXCEPT ![t] = IdleThread]
  ELSE [thread EXCEPT ![t] = [rec EXCEPT !.pc = @ + 1]]

\* the listen_js calls that have not taken their id yet
Allocating == {t \in Threads : StepOf(t) = "next_event_id"}

InitThreads == InitEvents

\* a thread calls listen_js(source, event, _) through a handle
CallListenJs(t, h, source, event) ==
  /\ ~Busy(t)
  /\ next_event_id + Cardinality(Allocating) <= MaxListeners
  /\ thread' = [thread EXCEPT ![t] =
                  [op |-> "listen_js", pc |-> 1, w |-> TableOf(h),
                   source |-> source, event |-> event, id |-> 0]]
  /\ UNCHANGED <<lock, returned, probe>>
  /\ UNCHANGED evvars
  /\ UNCHANGED ipcvars

\* a thread calls unlisten_js(event, id) through a handle
CallUnlistenJs(t, h, event, id) ==
  /\ ~Busy(t)
  /\ thread' = [thread EXCEPT ![t] =
                  [op |-> "unlisten_js", pc |-> 1, w |-> TableOf(h),
                   event |-> event, id |-> id]]
  /\ UNCHANGED <<lock, returned, probe>>
  /\ UNCHANGED evvars
  /\ UNCHANGED ipcvars

\* a thread emits (source, event) to a webview
CallEmit(t, h, source, event) ==
  /\ ~Busy(t)
  /\ thread' = [thread EXCEPT ![t] =
                  [op |-> "emit", pc |-> 1, w |-> TableOf(h),
                   source |-> source, event |-> event,
                   held |-> {}]]
  /\ UNCHANGED <<lock, returned, probe>>
  /\ UNCHANGED evvars
  /\ UNCHANGED ipcvars

\* let event_id = self.manager().listeners().next_event_id()
StepNextEventId(t) ==
  /\ StepOf(t) = "next_event_id"
  /\ LET next == NextEventId(next_event_id)
     IN /\ next_event_id' = next.counter
        /\ thread' = Advance(t, [thread[t] EXCEPT !.id = next.id])
  /\ UNCHANGED <<js_event_listeners, installed, live, last>>
  /\ UNCHANGED <<lock, returned, probe>>
  /\ UNCHANGED ipcvars

\* the script a call evaluates
ScriptOf(rec) ==
  IF rec.op = "listen_js" THEN ListenScript(rec.event, rec.id, rec.source, Handler)
  ELSE IF rec.op = "unlisten_js" THEN UnlistenScript(rec.event, rec.id)
  ELSE EmitScript(rec.source, rec.event)

\* an emission to w that has_js_listener answered and whose script is not
\* evaluated yet
EmitPending(u, w) == thread[u].op = "emit" /\ thread[u].w = w /\ StepOf(u) = "eval"

\* self.eval(..)?: the script is evaluated in the page, or the call returns
\* the error (and drops the guard it holds, if any)
StepEval(t, eval_ok) ==
  LET rec == thread[t]
      w == rec.w
  IN /\ StepOf(t) = "eval"
     /\ IF eval_ok
        THEN /\ installed' = [installed EXCEPT ![w] = Evaluated(@, ScriptOf(rec))]
             /\ thread' = Advance(t, rec)
             /\ lock' = IF LastStep(t) THEN Unlocked(t, w) ELSE lock
             /\ UNCHANGED last
        ELSE /\ thread' = [thread EXCEPT ![t] = IdleThread]
             /\ lock' = Unlocked(t, w)
             /\ UNCHANGED <<installed, last>>
     /\ UNCHANGED <<js_event_listeners, next_event_id, live>>
     /\ UNCHANGED <<returned, probe>>
     /\ UNCHANGED ipcvars

\* mutant: a lock that keeps nobody out
LockFreeAlways(holder) == TRUE

\* Mutex::lock returns once no other thread holds the guard
LockFree(holder) == holder = "free"

\* self.js_event_listeners.lock().unwrap()
StepLock(t) ==
  /\ StepOf(t) = "lock"
  /\ LockFree(lock[thread[t].w])
  /\ lock' = [lock EXCEPT ![thread[t].w] = t]
  /\ thread' = Advance(t, thread[t])
  /\ UNCHANGED <<returned, probe>>
  /\ UNCHANGED evvars
  /\ UNCHANGED ipcvars

\* .entry(key).or_default().insert(event_id); the guard is dropped at the
\* end of the statement; Ok(event_id)
StepInsert(t) ==
  LET rec == thread[t]
      w == rec.w
  IN /\ StepOf(t) = "insert"
     /\ lock[w] = t
     /\ js_event_listeners' =
          [js_event_listeners EXCEPT
             ![w] = ListenInsert(@, JsEventListenerKey(rec.source, rec.event), rec.id)]
     /\ live' = live \cup {[w |-> w, id |-> rec.id, source |-> rec.source,
                             event |-> rec.event]}
     /\ lock' = Unlocked(t, w)
     /\ thread' = Advance(t, rec)
     /\ returned' = IF LastStep(t) THEN returned \cup {rec.id} ELSE returned
     /\ UNCHANGED <<next_event_id, installed, last>>
     /\ UNCHANGED probe
     /\ UNCHANGED ipcvars

\* the loop of unlisten_js over the table and the removal of the emptied
\* key; the guard is dropped on return
StepRemove(t) ==
  LET rec == thread[t]
      w == rec.w
  IN /\ StepOf(t) = "remove"
     /\ lock[w] = t
     /\ js_event_listeners' =
          [js_event_listeners EXCEPT ![w] = UnlistenRemove(@, rec.event, rec.id)]
     /\ live' = {l \in live : ~(l.w = w /\ l.id = rec.id)}
     /\ lock' = Unlocked(t, w)
     /\ thread' = Advance(t, rec)
     /\ UNCHANGED <<next_event_id, installed, last>>
     /\ UNCHANGED <<returned, probe>>
     /\ UNCHANGED ipcvars

\* the ids the table holds for the event (the sources of the emissions and
\* of the registrations are ThreadSources)
HeldFor(listeners, event) ==
  UNION {listeners[k] : k \in {x \in DOMAIN listeners : x.event = event}}

\* has_js_listener: the answer is computed under the lock and the guard is
\* dropped on return; emit_js is not called when the answer is false
StepMatch(t) ==
  LET rec == thread[t]
      w == rec.w
      matched == HasJsListener(js_event_listeners[w], WindowLabel(w),
                               rec.source, rec.event)
  IN /\ StepOf(t) = "match"
     /\ lock[w] = t
     /\ lock' = Unlocked(t, w)
     /\ thread' =
          IF matched
          THEN Advance(t, [rec EXCEPT !.held = HeldFor(js_event_listeners[w], rec.event)])
          ELSE [thread EXCEPT ![t] = IdleThread]
     /\ UNCHANGED <<returned, probe>>
     /\ UNCHANGED evvars
     /\ UNCHANGED ipcvars

NextThreads ==
  \/ \E t \in Threads, h \in Handles, source \in ThreadSources, event \in ThreadEvents :
       CallListenJs(t, h, source, event)
  \/ \E t \in Threads, h \in Handles, event \in ThreadEvents, id \in EventIds :
       CallUnlistenJs(t, h, event, id)
  \/ \E t \in Threads, h \in Handles, source \in ThreadSources, event \in ThreadEvents :
       CallEmit(t, h, source, event)
  \/ \E t \in Threads : StepNextEventId(t)
  \/ \E t \in Threads, eval_ok \in BOOLEAN : StepEval(t, eval_ok)
  \/ \E t \in Threads : StepLock(t)
  \/ \E t \in Threads : StepInsert(t)
  \/ \E t \in Threads : StepRemove(t)
  \/ \E t \in Threads : StepMatch(t)

SpecThreads == InitThreads /\ [][NextThreads]_vars

(***************************************************************************)
(* The claims.                                                             *)
(***************************************************************************)
\* on_message has run for request i up to or past its handler call
Received(i) == pc[i] \in {"dispatched", "returned"}

\* the origin of request i: the URL its webview showed when it arrived
OriginLocal(i) == IsLocalUrl(req[i].webview_url)
OriginAccess(i) == RemoteAccessFor(req[i].webview, req[i].webview_url)

\* the rejection of request i with the given payload
Rejection(i, payload) ==
  [kind |-> "Err", callback |-> ErrorOf(i), payload |-> payload,
   cmd |-> req[i].cmd, ran |-> Ran(req[i].resolver, "Err", payload)]

\* C1: under every interleaving of resolve and reject calls on the clones of
\* a request's resolver (the handler's and the dispatcher's), respond runs at
\* most once: one response once a call was made, and no more whatever the
\* number of calls.
C1_RespondAtMostOnce ==
  \A i \in ReqIds :
    Len(responses[i]) = (IF calls[i].n > 0 THEN 1 ELSE 0)

\* C1 witness: the handler completed and the dispatcher's fallback rejection
\* ran too, on one request, and one response was sent.
C1_Witness ==
  \E i \in ReqIds :
    /\ pc[i] = "returned" /\ invoked[i].api # "none" /\ ~req[i].handled
    /\ hand[i].attempts >= 1
    /\ calls[i].n >= 2
    /\ Len(responses[i]) = 1

\* C2: the one response of a request is that of its first completing call:
\* it has the kind and payload of that call, and carries the success callback
\* id if the call was resolve and the error callback id if it was reject.
C2_FirstCallDecides ==
  \A i \in ReqIds :
    calls[i].n > 0 =>
      /\ Len(responses[i]) = 1
      /\ responses[i][1].kind = calls[i].kind
      /\ responses[i][1].payload = calls[i].payload
      /\ responses[i][1].callback =
           (IF calls[i].kind = "Ok" THEN CallbackOf(i) ELSE ErrorOf(i))

\* C2 witness: resolve, then reject (the dispatcher's), and the response is
\* the resolution.
C2_Witness ==
  \E i \in ReqIds :
    /\ calls[i].n >= 2 /\ calls[i].kind = "Ok" /\ calls[i].by = "handler"
    /\ pc[i] = "returned" /\ ~req[i].handled
    /\ responses[i] = <<[kind |-> "Ok", callback |-> CallbackOf(i),
                          payload |-> HandlerValue, cmd |-> req[i].cmd,
                          ran |-> Ran(req[i].resolver, "Ok", HandlerValue)]>>

\* C3: a request from a remote origin that the gate denies is rejected at
\* once with the denial message, and no handler is called for it, neither
\* extend_api nor run_invoke_handler.
C3_DeniedInvokesNoHandler ==
  \A i \in ReqIds :
    (Received(i) /\ ~OriginLocal(i) /\ ~OriginAccess(i).ok) =>
      /\ pc[i] = "returned"
      /\ invoked[i] = NotInvoked
      /\ Len(responses[i]) = 1
      /\ responses[i][1].kind = "Err"
      /\ responses[i][1].payload.text \in
           {"Scope not defined for window and URL", "Scope not defined for window",
            "Scope not defined for URL"}

\* C3 witness: a denied plugin-prefixed request and its rejection.
C3_Witness ==
  \E i \in ReqIds :
    /\ Received(i) /\ ~OriginLocal(i) /\ ~OriginAccess(i).ok
    /\ StartsWith(req[i].cmd, PluginPrefix)
    /\ invoked[i] = NotInvoked /\ Len(responses[i]) = 1

\* C4: with no remote-access policy configured, a request from a non-local
\* origin gets a rejection as its only response, whatever the URL and the
\* command, and reaches no handler.
C4_FailClosed ==
  \A i \in ReqIds :
    (Received(i) /\ policy = {} /\ ~OriginLocal(i)) =>
      /\ responses[i] # <<>>
      /\ \A k \in 1..Len(responses[i]) :
           responses[i][k].kind = "Err" /\ responses[i][k].callback = ErrorOf(i)
      /\ invoked[i] = NotInvoked
      /\ ~hand[i].holds

\* C4 witness: no policy, a direct command from a remote origin, rejected.
C4_Witness ==
  \E i \in ReqIds :
    /\ Received(i) /\ policy = {} /\ ~OriginLocal(i)
    /\ ~StartsWith(req[i].cmd, PluginPrefix) /\ req[i].cmd # <<>>
    /\ Len(responses[i]) = 1 /\ responses[i][1].kind = "Err"

ScopeTexts ==
  {"Scope not defined for window and URL", "Scope not defined for window",
   "Scope not defined for URL", IPC_SCOPE_DOES_NOT_ALLOW}

\* C5: a request from a local origin bypasses the gate: the policy is not
\* consulted, no response of the request is a scope rejection, and a
\* plugin-prefixed command is passed to extend_api whatever the plugin name.
C5_LocalBypassesGate ==
  \A i \in ReqIds :
    (Received(i) /\ OriginLocal(i)) =>
      /\ ~req[i].consulted
      /\ ~req[i].scope.some
      /\ \A k \in 1..Len(responses[i]) : responses[i][k].payload.text \notin ScopeTexts
      /\ StartsWith(req[i].cmd, PluginPrefix) =>
           /\ invoked[i].api = "extend_api"
           /\ invoked[i].plugin = PluginOf(req[i].cmd)

\* C5 witness: no policy at all, a local origin, and a plugin command passed
\* to extend_api.
C5_Witness ==
  \E i \in ReqIds :
    /\ Received(i) /\ OriginLocal(i) /\ policy = {}
    /\ StartsWith(req[i].cmd, PluginPrefix)
    /\ invoked[i].api = "extend_api" /\ invoked[i].plugin = <<"a">>

\* C6: for a remote origin the gate allows with plugin set S, a
\* plugin-prefixed command whose plugin name is neither in S nor the channel
\* pseudo-plugin is rejected once with "Not allowed by the scope", and
\* extend_api is not called.
C6_PluginOutsideScopeRejected ==
  \A i \in ReqIds :
    ( /\ Received(i) /\ ~OriginLocal(i) /\ OriginAccess(i).ok
      /\ StartsWith(req[i].cmd, PluginPrefix)
      /\ PluginOf(req[i].cmd) \notin OriginAccess(i).plugins
      /\ PluginOf(req[i].cmd) # CHANNEL_PLUGIN_NAME ) =>
      /\ pc[i] = "returned"
      /\ invoked[i] = NotInvoked
      /\ responses[i] = <<Rejection(i, Message("Not allowed by the scope"))>>

\* C6 witness: plugin "a" called from a remote origin allowed with the empty
\* plugin set.
C6_Witness ==
  \E i \in ReqIds :
    /\ Received(i) /\ ~OriginLocal(i) /\ OriginAccess(i).ok
    /\ OriginAccess(i).plugins = {}
    /\ StartsWith(req[i].cmd, PluginPrefix) /\ PluginOf(req[i].cmd) = <<"a">>
    /\ Len(responses[i]) = 1

\* the scope denial of request i: the gate's answer for its origin
Denied(i) == Received(i) /\ ~OriginLocal(i) /\ ~OriginAccess(i).ok

WindowPolicyMissing == [ok |-> FALSE, matches_window |-> FALSE, matches_domain |-> TRUE]
DomainPolicyMissing == [ok |-> FALSE, matches_window |-> TRUE, matches_domain |-> FALSE]

C8_ClassifiedByWebviewUrl ==
  \A i \in ReqIds :
    Received(i) =>
      /\ req[i].current_url = req[i].webview_url
      /\ req[i].is_local = OriginLocal(i)
      /\ req[i].scope = OnMessageScope(OriginLocal(i), OriginAccess(i))
      /\ (Len(responses[i]) = 1 /\ responses[i][1].payload.text \in
            {"Scope not defined for window and URL", "Scope not defined for window",
             "Scope not defined for URL"}) <=> Denied(i)

\* C8 witness: a request whose headers claim the application's origin,
\* arriving at a webview that shows a remote URL, classified remote.
C8_Witness ==
  \E i \in ReqIds :
    /\ Received(i)
    /\ req[i].headers.origin = AppUrl /\ req[i].webview_url = RemoteUrl
    /\ ~req[i].is_local /\ Denied(i)

\* the command name the dispatcher gives a request
NameOf(i) ==
  IF StartsWith(req[i].cmd, PluginPrefix) THEN CommandOf(req[i].cmd) ELSE req[i].cmd

\* C9: when a handler call (run_invoke_handler or extend_api) returned false
\* and the handler did not complete the resolver first, the request is
\* rejected once with "Command {name} not found", {name} being the direct
\* command or the command part of a plugin command.
C9_NotFoundRejection ==
  \A i \in ReqIds :
    ( /\ pc[i] = "returned" /\ invoked[i].api # "none" /\ ~req[i].handled
      /\ calls[i].n > 0 /\ calls[i].by = "dispatcher" ) =>
      responses[i] = <<Rejection(i, [text |-> "Command {} not found", command |-> NameOf(i)])>>

\* C9 witness: plugin command "plugin:a|a" that extend_api did not handle,
\* rejected with the command part "a".
C9_Witness ==
  \E i \in ReqIds :
    /\ pc[i] = "returned" /\ invoked[i].api = "extend_api" /\ ~req[i].handled
    /\ req[i].cmd = <<PluginPrefix, "a", Sep, "a">>
    /\ responses[i][1].payload = [text |-> "Command {} not found", command |-> <<"a">>]

\* a plugin-prefixed command with no separator after the prefix, or with
\* nothing after the first separator
Malformed(cmd) ==
  /\ StartsWith(cmd, PluginPrefix)
  /\ LET rest == Tail(cmd)
     IN FirstSep(rest) = 0 \/ FirstSep(rest) = Len(rest)

\* C10 as stated: for every origin, a malformed plugin-prefixed command ends
\* in the "Command {name} not found" rejection with the empty name.
C10_MalformedNotFoundEveryOrigin ==
  \A i \in ReqIds :
    (pc[i] = "returned" /\ Malformed(req[i].cmd)) =>
      /\ responses[i] # <<>>
      /\ responses[i][1].payload = [text |-> "Command {} not found", command |-> <<>>]

\* the origin of request i passes the gate and may call the plugin named in
\* its command
MayCallPlugin(i) ==
  \/ OriginLocal(i)
  \/ /\ OriginAccess(i).ok
     /\ \/ PluginOf(req[i].cmd) = CHANNEL_PLUGIN_NAME
        \/ PluginOf(req[i].cmd) \in OriginAccess(i).plugins

\* C10 amended: for an origin that passes the gate and may call the plugin,
\* a malformed plugin-prefixed command is passed to extend_api with the
\* empty command name, matches no handler, and ends in the
\* "Command {name} not found" rejection with the empty name unless the
\* handler completed the resolver first.
C10_MalformedNotFound ==
  \A i \in ReqIds :
    (Received(i) /\ Malformed(req[i].cmd) /\ MayCallPlugin(i)) =>
      /\ invoked[i] = [api |-> "extend_api", plugin |-> PluginOf(req[i].cmd),
                       command |-> <<>>]
      /\ ~req[i].handled
      /\ (pc[i] = "returned" /\ calls[i].by = "dispatcher") =>
           responses[i] = <<Rejection(i, [text |-> "Command {} not found", command |-> <<>>])>>

\* C10 witness: "plugin:a" (no separator) from a local origin, rejected as
\* not found with the empty name.
C10_Witness ==
  \E i \in ReqIds :
    /\ pc[i] = "returned" /\ OriginLocal(i)
    /\ req[i].cmd = <<PluginPrefix, "a">>
    /\ responses[i] = <<Rejection(i, [text |-> "Command {} not found", command |-> <<>>])>>

\* the handler took request i (it returned `handled`) and has not called
\* resolve or reject yet
HandlerOwes(i) ==
  /\ Received(i) /\ invoked[i].api # "none"
  /\ req[i].handled
  /\ hand[i].attempts = 0

\* on_message is over for request i: it returned, or it panicked
OnMessageOver(i) == pc[i] \in {"returned", "panicked"}

\* C11 as stated: every request ends in exactly one terminal state (one
\* response, Resolved or Rejected): once on_message is over for it, and
\* once the handler that took it has called resolve or reject, the request
\* has its one response.
C11_EveryRequestSettles ==
  \A i \in ReqIds :
    (OnMessageOver(i) /\ ~HandlerOwes(i)) => Len(responses[i]) = 1

\* C12: with two requests in flight, a completion of one never takes the
\* slot of the other and never answers with the ids of the other: the slot
\* of a request is empty only after a call made for that request, every
\* response of a request carries its own command and one of its own two
\* callback ids, and a request whose resolver was called has its response
\* whatever happened to the other.
C12_FailuresLocal ==
  \A i \in ReqIds :
    /\ (~slot[i]["c0"]) => calls[i].n > 0
    /\ calls[i].n > 0 => Len(responses[i]) = 1
    /\ \A k \in 1 .. Len(responses[i]) :
         /\ responses[i][k].callback \in {CallbackOf(i), ErrorOf(i)}
         /\ responses[i][k].cmd = req[i].cmd
         /\ \A j \in ReqIds \ {i} :
              responses[i][k].callback \notin {CallbackOf(j), ErrorOf(j)}

\* C12 witness: one request was rejected by the dispatcher while the other
\* is in the hands of its handler, its slot still full.
C12_Witness ==
  \E i, j \in ReqIds :
    /\ i # j
    /\ pc[i] = "returned" /\ Len(responses[i]) = 1 /\ responses[i][1].kind = "Err"
    /\ pc[j] = "dispatched" /\ hand[j].holds /\ calls[j].n = 0
    /\ slot[j]["c0"]

\* C13 as stated: on_message never panics, whatever the request and the
\* state of the webview, the failure of the runtime to give the webview's
\* current URL included.
C13_OnMessageNeverPanics ==
  \A i \in ReqIds : pc[i] # "panicked"

\* C14: when a custom responder is configured, every response that is sent
\* went through the custom responder first and through the default one
\* next, once each, and both were given the command, the response and the
\* two callback ids of the request.
C14_CustomResponderFirst ==
  invoke_responder =>
    \A i \in ReqIds : \A k \in 1 .. Len(responses[i]) :
      LET r == responses[i][k]
      IN /\ Len(r.ran) = 2
         /\ r.ran[1].responder = "custom"
         /\ r.ran[2].responder = "default"
         /\ \A n \in 1 .. 2 :
              /\ r.ran[n].cmd = req[i].cmd
              /\ r.ran[n].kind = r.kind
              /\ r.ran[n].payload = r.payload
              /\ r.ran[n].callback = CallbackOf(i)
              /\ r.ran[n].error = ErrorOf(i)

\* C14 witness: a custom responder is configured and a handler resolved a
\* request.
C14_Witness ==
  /\ invoke_responder
  /\ \E i \in ReqIds :
       /\ calls[i].n > 0 /\ calls[i].by = "handler" /\ calls[i].kind = "Ok"
       /\ Len(responses[i]) = 1
       /\ Len(responses[i][1].ran) = 2

\* the registrations webview w holds for event e under one of the sources
Holds(w, e, sources) ==
  {x \in live : x.w = w /\ x.event = e /\ x.source \in sources}

\* has_js_listener of webview w
Matched(w, source, event) ==
  HasJsListener(js_event_listeners[w], WindowLabel(w), source, event)

\* the last call was an emission of (source, event)
Emitted(source, event) ==
  /\ last.call = "emit"
  /\ last.source = source /\ last.event = event

\* C15: a Global emission of event e matches a webview exactly when the
\* webview holds a registration for e, under whatever source; the emission
\* evaluates its script in the webview in that case only.
C15_GlobalMatchesAnySource ==
  \A w \in EvWebviews, e \in Events :
    /\ Matched(w, Global, e) <=> Holds(w, e, Sources) # {}
    /\ Emitted(Global, e) => (last.scripts[w] # <<>> <=> Holds(w, e, Sources) # {})

\* C15 witness: a Global emission evaluated its script in a webview whose
\* registrations for the event are all under Window or Webview sources.
C15_Witness ==
  \E w \in EvWebviews, e \in Events :
    /\ Emitted(Global, e)
    /\ last.scripts[w] = <<EmitScript(Global, e)>>
    /\ Holds(w, e, {Global}) = {}

\* C16 as stated: a Window{l} emission of e matches every webview that
\* holds a registration for e under Window{l}, Webview{l} or Global.
C16_WindowCascadeEveryWebview ==
  \A w \in EvWebviews, l \in SourceLabels, e \in Events :
    Holds(w, e, {WindowSource(l), WebviewSource(l), Global}) # {} =>
      Matched(w, WindowSource(l), e)

\* C16 amended: a Window{l} emission of e matches every webview of window
\* l that holds a registration for e under Window{l}, Webview{l} or
\* Global, and the emission evaluates its script there.
C16_WindowCascade ==
  \A w \in EvWebviews, l \in SourceLabels, e \in Events :
    (WindowLabel(w) = l /\
     Holds(w, e, {WindowSource(l), WebviewSource(l), Global}) # {}) =>
      /\ Matched(w, WindowSource(l), e)
      /\ Emitted(WindowSource(l), e) => last.scripts[w] = <<EmitScript(WindowSource(l), e)>>

\* C16 witness: a Window{l} emission evaluated its script in a webview of
\* window l whose registrations for the event are all under Webview{l}.
C16_Witness ==
  \E w \in EvWebviews, l \in SourceLabels, e \in Events :
    /\ WindowLabel(w) = l
    /\ Emitted(WindowSource(l), e)
    /\ last.scripts[w] = <<EmitScript(WindowSource(l), e)>>
    /\ Holds(w, e, Sources) # {}
    /\ Holds(w, e, Sources) = Holds(w, e, {WebviewSource(l)})

\* C17: a Webview-sourced emission, and a Window-sourced emission whose
\* label is not that of the receiving webview's window, match a webview
\* exactly when it holds a registration under the very key of the emission
\* or under (Global, e); so a Webview{l} emission does not match a
\* registration under Window{l}.
C17_NoCascadeUpOrAcross ==
  \A w \in EvWebviews, s \in Sources, e \in Events :
    (s.kind = "Webview" \/ (s.kind = "Window" /\ s.label # WindowLabel(w))) =>
      /\ Matched(w, s, e) <=> Holds(w, e, {s, Global}) # {}
      /\ Emitted(s, e) => (last.scripts[w] # <<>> <=> Holds(w, e, {s, Global}) # {})

\* C17 witness: a Webview{l} emission evaluated nothing in a webview that
\* holds a registration for the event under Window{l}.
C17_Witness ==
  \E w \in EvWebviews, l \in SourceLabels, e \in Events :
    /\ Emitted(WebviewSource(l), e)
    /\ last.scripts[w] = <<>>
    /\ Holds(w, e, {WindowSource(l)}) # {}

\* the call that has just ended is unlisten_js(_, id) on webview w, and
\* its script was evaluated
Unlistened(w, id) ==
  /\ last'.call = "unlisten_js"
  /\ last'.w = w /\ last'.id = id
  /\ last'.evaluated

\* C18: an unlisten_js that finds the id in the table takes it out of the
\* set of its key and of has_js_listener: the key leaves the table if the
\* id was its last, it stays with exactly the other ids if not, every
\* other key is untouched, and has_js_listener answers as the remaining
\* registrations make it.
C18_UnlistenRemoves ==
  [][ \A w \in EvWebviews, id \in EventIds :
        (Unlistened(w, id) /\ id \in IdsOf(js_event_listeners[w])) =>
          LET before == js_event_listeners[w]
              after == js_event_listeners'[w]
              key == CHOOSE k \in DOMAIN before : id \in before[k]
          IN /\ id \notin IdsOf(after)
             /\ IF before[key] = {id}
                THEN key \notin DOMAIN after
                ELSE key \in DOMAIN after /\ after[key] = before[key] \ {id}
             /\ \A k \in DOMAIN before \ {key} :
                  k \in DOMAIN after /\ after[k] = before[k]
             /\ DOMAIN after \subseteq DOMAIN before
             /\ \A s \in Sources, e \in Events :
                  HasJsListener(after, WindowLabel(w), s, e) =>
                    \E x \in live : x.w = w /\ x.id # id /\ x.event = e
    ]_vars

\* C18 witness: unlisten_js found and removed an id, and the webview still
\* holds another one.
C18_Witness ==
  /\ last.call = "unlisten_js"
  /\ last.found /\ last.result = "Ok"
  /\ last.id \notin IdsOf(js_event_listeners[last.w])
  /\ IdsOf(js_event_listeners[last.w]) # {}

Matches(x, w, s, e) ==
  /\ x.w = w /\ x.event = e
  /\ \/ s = Global
     \/ x.source = s
     \/ x.source = Global
     \/ (s.kind = "Window" /\ s.label = WindowLabel(w)
         /\ x.source = WebviewSource(s.label))

\* C20: an emission of (s, e) to a webview that holds a registration made
\* by listen_js(s, e) evaluates one script, the emit script of (s, e), and
\* the listener of the id listen_js returned is installed in the page; an
\* emission to a webview left with no matching registration (its ids
\* unlistened) evaluates nothing.
C20_EmitFollowsRegistrations ==
  \A w \in EvWebviews, s \in Sources, e \in Events :
    Emitted(s, e) =>
      /\ Holds(w, e, {s}) # {} =>
           /\ last.scripts[w] = <<EmitScript(s, e)>>
           /\ \A x \in Holds(w, e, {s}) :
                [id |-> x.id, event |-> e] \in installed[w]
      /\ (\A x \in live : ~Matches(x, w, s, e)) => last.scripts[w] = <<>>

\* C20 witness: an emission of (Webview{l}, e) evaluated its one script in
\* a webview that holds one registration, made for (Webview{l}, e).
C20_Witness ==
  \E w \in EvWebviews, l \in SourceLabels, e \in Events :
    /\ Emitted(WebviewSource(l), e)
    /\ last.scripts[w] = <<EmitScript(WebviewSource(l), e)>>
    /\ \E x \in live : live = {x} /\ x.w = w /\ x.source = WebviewSource(l) /\ x.event = e

\* the command of the probe is "plugin:" + P + "|" + C with no '|' in P
PluginForm(cmd) == StartsWith(cmd, PluginPrefix) /\ FirstSep(Tail(cmd)) > 0
PartP(cmd) == SubSeq(Tail(cmd), 1, FirstSep(Tail(cmd)) - 1)
PartC(cmd) == SubSeq(Tail(cmd), FirstSep(Tail(cmd)) + 1, Len(Tail(cmd)))

\* C22 as stated: a command "plugin:" + P + "|" + C is dispatched to the
\* plugin P, the text between the prefix and the first '|', with the
\* command C, all the text after the first '|'.
C22_SplitOnFirstSeparator ==
  (probe.fn = "on_message" /\ probe.done /\ PluginForm(probe.cmd)) =>
    /\ probe.api = "extend_api"
    /\ probe.plugin = PartP(probe.cmd)
    /\ probe.command = PartC(probe.cmd)

\* C25: is_local_url answers true exactly for a URL of the scheme and
\* domain of the application's URL (relative to it), for a URL of the
\* scheme and domain of the resource protocol's URL, and, in a development
\* build, for a URL of domain "tauri.localhost"; outside a development
\* build a "tauri.localhost" URL that is neither of the first two is remote.
C25_LocalExactly ==
  (probe.fn = "is_local_url" /\ probe.done) =>
    LET u == probe.url
        app == u.scheme = "http" /\ u.domain = "localhost"
        protocol == u.scheme = "tauri" /\ u.domain = "localhost"
        loopback == u.domain = "tauri.localhost"
    IN /\ probe.is_local <=> (app \/ protocol \/ (dev /\ loopback))
       /\ (~dev /\ loopback) => ~probe.is_local

\* C25 witness: outside a development build "http://tauri.localhost" was
\* classified remote.
C25_Witness ==
  /\ probe.fn = "is_local_url" /\ probe.done
  /\ ~dev
  /\ probe.url = Url("http", "tauri.localhost")
  /\ ~probe.is_local

\* has_js_listener was called for a Window-sourced emission whose label is
\* that of the webview's window
SameWindowProbe ==
  /\ probe.fn = "has_js_listener" /\ probe.done
  /\ probe.source.kind = "Window"
  /\ probe.source.label = probe.window

RemoteChannelCall(i) ==
  /\ Received(i) /\ ~OriginLocal(i)
  /\ StartsWith(req[i].cmd, PluginPrefix)
  /\ PluginOf(req[i].cmd) = CHANNEL_PLUGIN_NAME

\* C23: the exemption of the channel pseudo-plugin applies only after the
\* gate: from a remote origin the gate allows with plugin set S, a channel
\* command is passed to extend_api and meets no scope rejection, also when
\* the pseudo-plugin is not in S; from a remote origin the gate denies, a
\* channel command is rejected with a scope text and nothing is dispatched.
C23_ChannelExemptAfterGate ==
  \A i \in ReqIds :
    RemoteChannelCall(i) =>
      IF OriginAccess(i).ok
      THEN /\ invoked[i].api = "extend_api"
           /\ invoked[i].plugin = CHANNEL_PLUGIN_NAME
           /\ \A k \in 1 .. Len(responses[i]) :
                responses[i][k].payload.text \notin ScopeTexts
      ELSE /\ pc[i] = "returned"
           /\ invoked[i] = NotInvoked
           /\ Len(responses[i]) = 1
           /\ responses[i][1].kind = "Err"
           /\ responses[i][1].payload.text \in ScopeTexts \ {IPC_SCOPE_DOES_NOT_ALLOW}

\* C23 witness: a channel command from a remote origin allowed with the
\* empty plugin set was passed to extend_api.
C23_Witness ==
  \E i \in ReqIds :
    /\ RemoteChannelCall(i)
    /\ OriginAccess(i).ok /\ OriginAccess(i).plugins = {}
    /\ invoked[i].api = "extend_api"

\* what the rejection of a denied request i names
NamesUrl(i) ==
  /\ "url" \in DOMAIN responses[i][1].payload
  /\ responses[i][1].payload.url = req[i].webview_url
NamesWindow(i) ==
  /\ "label" \in DOMAIN responses[i][1].payload
  /\ responses[i][1].payload.label = req[i].webview
HasWindowPolicy(i) == \E e \in policy : e.window = req[i].webview
HasDomainPolicy(i) == \E e \in policy : e.domain = req[i].webview_url.domain

\* C24: the text of a denial follows the policy through the two flags: a
\* remote origin whose window has a policy, none of them for its domain, is
\* denied with the text that names the URL and not the window; one whose
\* window has no policy while its domain has one, with the text that names
\* the window and not the URL; one with neither, with the text that names
\* both.
C24_DenialTextFromFlags ==
  \A i \in ReqIds :
    Denied(i) =>
      /\ OriginAccess(i).matches_window = HasWindowPolicy(i)
      /\ HasWindowPolicy(i) =>
           /\ ~OriginAccess(i).matches_domain
           /\ responses[i][1].payload.text = "Scope not defined for URL"
           /\ NamesUrl(i) /\ "label" \notin DOMAIN responses[i][1].payload
      /\ (~HasWindowPolicy(i) /\ HasDomainPolicy(i)) =>
           /\ OriginAccess(i).matches_domain
           /\ responses[i][1].payload.text = "Scope not defined for window"
           /\ NamesWindow(i) /\ "url" \notin DOMAIN responses[i][1].payload
      /\ (~HasWindowPolicy(i) /\ ~HasDomainPolicy(i)) =>
           /\ ~OriginAccess(i).matches_domain
           /\ responses[i][1].payload.text = "Scope not defined for window and URL"
           /\ NamesWindow(i) /\ NamesUrl(i)

\* C24 witness: the window of the request has no policy, another window
\* has one for the domain, and the rejection names the window alone.
C24_Witness ==
  \E i \in ReqIds :
    /\ Denied(i)
    /\ ~HasWindowPolicy(i) /\ HasDomainPolicy(i)
    /\ responses[i] = <<Rejection(i, ipc_scope_window_error_message(req[i].webview))>>

\* the call that has just ended is a listen_js or an unlisten_js through a
\* handle of webview w
RegistryCall(w) ==
  /\ last'.call \in {"listen_js", "unlisten_js"}
  /\ last'.w = w

\* C29: a listen_js or an unlisten_js through a handle of one webview (the
\* handle Webview::new made or a clone of it) leaves the table of every
\* other webview, and so every answer of its has_js_listener, as it was;
\* the handle and its clone share one table: the id a listen_js returned,
\* through either, is in the table has_js_listener of the webview reads.
C29_OtherWebviewsUntouched ==
  [][ \A w \in EvWebviews :
        RegistryCall(w) =>
          /\ \A v \in EvWebviews \ {w} :
               /\ js_event_listeners'[v] = js_event_listeners[v]
               /\ \A s \in Sources, e \in Events :
                    Matched(v, s, e)' = Matched(v, s, e)
          /\ (last'.call = "listen_js" /\ last'.result = ListenJsResult(TRUE)) =>
               next_event_id \in IdsOf(js_event_listeners'[w])
    ]_vars

\* C29 witness: the two webviews hold registrations for one event name
\* under one source, and the last call removed one of "main" only:
\* has_js_listener of "other" is still true for it.
C29_Witness ==
  \E s \in Sources, e \in Events :
    /\ last.call = "unlisten_js" /\ last.w = "main" /\ last.found
    /\ Holds("main", e, Sources) = {}
    /\ Holds("other", e, {s}) # {}
    /\ Matched("other", s, e) /\ ~Matched("main", s, e)

\* the listen_js calls that hold their id and have not returned
Allocated == {t \in Threads : thread[t].op = "listen_js" /\ StepOf(t) # "next_event_id"}

\* C21: listener ids are unique in the process: the id a listen_js call takes
\* from the counter is greater than every id returned before and than every
\* id another call holds, on whatever webview; two calls in progress hold
\* different ids, and the id a call returns was returned by no call before.
C21_IdsUniqueAndIncreasing ==
  [][ \A t \in Threads :
        /\ (StepOf(t) = "next_event_id" /\ t \in Allocated') =>
             /\ \A id \in returned : thread'[t].id > id
             /\ \A u \in Allocated : thread'[t].id > thread[u].id
        /\ (thread[t].op = "listen_js" /\ StepOf(t) = "insert" /\ ~Busy(t)') =>
             /\ thread[t].id \notin returned
             /\ returned' = returned \cup {thread[t].id}
        /\ \A u \in Allocated' \ {t} :
             t \in Allocated' => thread'[t].id # thread'[u].id
    ]_vars

\* C21 witness: two listen_js calls on different webviews hold their ids at
\* the same time, the call that took the greater id being the one nearer to
\* its return.
C21_Witness ==
  \E t, u \in Allocated :
    /\ thread[t].w # thread[u].w
    /\ thread[t].id < thread[u].id
    /\ StepOf(t) = "eval" /\ StepOf(u) = "insert"

\* C26: no script is evaluated under the lock of the table: a thread about
\* to call eval holds no lock, and the holder of a lock is at the statement
\* that changes or reads the table and drops the guard, which waits for
\* nothing; so no thread waits for a lock whose holder waits for the
\* evaluation of a script.
C26_NoEvalUnderLock ==
  \A t \in Threads :
    /\ StepOf(t) = "eval" => \A w \in EvWebviews : lock[w] # t
    /\ \A w \in EvWebviews :
         lock[w] = t =>
           /\ thread[t].w = w
           /\ StepOf(t) \in {"insert", "remove", "match"}

\* C26 witness: a thread is about to evaluate a script in a webview while
\* another thread holds the lock of the table of that webview.
C26_Witness ==
  \E t, u \in Threads :
    /\ t # u
    /\ StepOf(t) = "eval"
    /\ lock[thread[t].w] = u

\* a client-side listener of the event is installed in the page of w
Listening(w, event) == \E x \in installed[w] : x.event = event

\* C27 as stated: under every interleaving, an emit script is evaluated in
\* a webview only while a client-side listener matching the emission is
\* installed there: whenever an emission is about to evaluate its script,
\* such a listener is installed.
C27_EmitOnlyWhileInstalled ==
  \A t \in Threads, w \in EvWebviews :
    EmitPending(t, w) => Listening(w, thread[t].event)

\* C27 amended: an emit script is evaluated in a webview only after
\* has_js_listener found in the table, under the lock, ids registered for
\* the emission, each returned by a listen_js of that webview (after the
\* evaluation of its install script); the listener may be gone from the
\* page when the emit script is evaluated.
C27_EmitOnlyAfterMatch ==
  \A t \in Threads, w \in EvWebviews :
    EmitPending(t, w) =>
      /\ thread[t].held # {}
      /\ thread[t].held \subseteq returned

\* C27 witness: an emission is about to evaluate its script in a webview
\* whose page has no listener any more: an unlisten_js evaluated the
\* teardown script and has not changed the table yet.
C27_Witness ==
  \E t, u \in Threads, w \in EvWebviews :
    /\ EmitPending(t, w)
    /\ ~Listening(w, thread[t].event)
    /\ thread[u].op = "unlisten_js" /\ thread[u].w = w /\ StepOf(u) = "lock"
    /\ thread[u].id \in thread[t].held

\* C30: under every interleaving of listen_js and unlisten_js, no key of a
\* table maps to the empty set, and a key is in the table of a webview
\* exactly when a registration made under it has not been unregistered:
\* the set of a key is the set of the ids of these registrations.
C30_NoEmptyKey ==
  \A w \in EvWebviews :
    /\ \A k \in DOMAIN js_event_listeners[w] :
         /\ js_event_listeners[w][k] # {}
         /\ js_event_listeners[w][k] =
              {x.id : x \in {y \in live : y.w = w /\ y.source = k.source
                                            /\ y.event = k.event}}
    /\ \A x \in live :
         x.w = w => JsEventListenerKey(x.source, x.event) \in DOMAIN js_event_listeners[w]

\* C30 witness: two registrations were returned, an unlisten_js took the
\* first id out of the table, and a key holds the second alone.
C30_Witness ==
  \E w \in EvWebviews : \E k \in DOMAIN js_event_listeners[w] :
    /\ returned = {1, 2}
    /\ js_event_listeners[w][k] = {2}
    /\ \A t \in Threads : ~Busy(t)

\* request i comes from a remote origin the gate allows
RemoteAllowed(i) == Received(i) /\ ~OriginLocal(i) /\ OriginAccess(i).ok

\* C34: the plugin set restricts the commands that start with "plugin:"
\* only: from a remote origin the gate allows, whatever its plugin set (the
\* empty one included), every other command is passed to
\* run_invoke_handler under its own name, and is rejected by no scope text.
C34_PluginSetSparesDirectCommands ==
  \A i \in ReqIds :
    (RemoteAllowed(i) /\ ~StartsWith(req[i].cmd, PluginPrefix)) =>
      /\ invoked[i] = [api |-> "run_invoke_handler", command |-> req[i].cmd]
      /\ \A k \in 1 .. Len(responses[i]) :
           responses[i][k].payload.text \notin ScopeTexts

\* C34 witness: command "a" from a remote origin allowed with the empty
\* plugin set was passed to run_invoke_handler and resolved by the handler.
C34_Witness ==
  \E i \in ReqIds :
    /\ RemoteAllowed(i) /\ OriginAccess(i).plugins = {}
    /\ req[i].cmd = <<"a">>
    /\ invoked[i].api = "run_invoke_handler"
    /\ Len(responses[i]) = 1 /\ responses[i][1].kind = "Ok"

\* C35: the plugin name held against the plugin set is the one extend_api
\* is given: for every command of a remote origin, extend_api is called
\* only with the channel pseudo-plugin or a member of the plugin set of the
\* origin, and the name is the one parsed from the command.
C35_CheckedPluginIsDispatched ==
  \A i \in ReqIds :
    (Received(i) /\ ~OriginLocal(i) /\ invoked[i].api = "extend_api") =>
      /\ OriginAccess(i).ok
      /\ invoked[i].plugin = PluginOf(req[i].cmd)
      /\ \/ invoked[i].plugin = CHANNEL_PLUGIN_NAME
         \/ invoked[i].plugin \in OriginAccess(i).plugins

\* C35 witness: a remote origin allowed with plugin set {"a"} had
\* extend_api called with plugin "a".
C35_Witness ==
  \E i \in ReqIds :
    /\ RemoteAllowed(i) /\ OriginAccess(i).plugins = {<<"a">>}
    /\ invoked[i].api = "extend_api" /\ invoked[i].plugin = <<"a">>

\* the unlisten_js(event, id) that has just ended on webview w named another
\* event than the one id was registered under: its teardown script left the
\* client-side listener of id in the page
OtherEventUnlistened(w, id) ==
  /\ Unlistened(w, id)
  /\ id \in IdsOf(js_event_listeners[w])
  /\ \E x \in installed'[w] : x.id = id

\* C33: unlisten_js(event, id) takes id out of the table whatever the event
\* name it is given, which goes into the teardown script only: called with
\* another event name than the one of the registration, it still removes
\* the id, and the key of the id if the id was its last; the table it
\* leaves is the one any event name gives.
C33_UnlistenIgnoresEvent ==
  [][ \A w \in EvWebviews, id \in EventIds :
        OtherEventUnlistened(w, id) =>
          LET before == js_event_listeners[w]
              after == js_event_listeners'[w]
              key == CHOOSE k \in DOMAIN before : id \in before[k]
          IN /\ id \notin IdsOf(after)
             /\ before[key] = {id} => key \notin DOMAIN after
             /\ \A e \in Events : after = UnlistenRemove(before, e, id)
             /\ \A x \in live' : ~(x.w = w /\ x.id = id)
    ]_vars

\* C33 witness: an unlisten_js found its id and removed it, with its key,
\* although its teardown script named another event: the listener of the
\* id is still in the page.
C33_Witness ==
  /\ last.call = "unlisten_js" /\ last.found /\ last.evaluated
  /\ last.id \notin IdsOf(js_event_listeners[last.w])
  /\ js_event_listeners[last.w] = NoListeners
  /\ \E x \in installed[last.w] : x.id = last.id

\* the eval of the listen_js or unlisten_js call of thread t has just
\* failed: the call was at its eval and has returned with statements left
EvalFailed(t) ==
  /\ thread[t].op \in {"listen_js", "unlisten_js"}
  /\ StepOf(t) = "eval"
  /\ ~Busy(t)'

\* C32: listen_js and unlisten_js change the table only after their script
\* was evaluated: a listen_js that has not evaluated its script yet has not
\* inserted its id; when the install script fails, listen_js returns the
\* error, the table is as it was and the id it took is neither in it nor
\* returned; when the teardown script fails, unlisten_js returns the error
\* and the table is as it was, the id still registered if it was.
C32_TableChangesAfterEval ==
  [][ \A t \in Threads :
        /\ (thread[t].op = "listen_js" /\ StepOf(t) \in {"eval", "lock"}) =>
             thread[t].id \notin IdsOf(js_event_listeners[thread[t].w])
        /\ EvalFailed(t) =>
             /\ js_event_listeners' = js_event_listeners
             /\ live' = live
             /\ installed' = installed
             /\ returned' = returned
             /\ thread[t].op = "listen_js" =>
                  /\ thread[t].id \notin IdsOf(js_event_listeners'[thread[t].w])
                  /\ thread[t].id \notin returned'
             /\ (thread[t].op = "unlisten_js"
                  /\ thread[t].id \in IdsOf(js_event_listeners[thread[t].w])) =>
                  thread[t].id \in IdsOf(js_event_listeners'[thread[t].w])
    ]_vars

\* C32 witness: every id of the counter was taken by a listen_js whose
\* install script failed: the calls are over, and nothing was returned,
\* inserted or installed.
C32_Witness ==
  /\ next_event_id > MaxListeners
  /\ \A t \in Threads : ~Busy(t)
  /\ returned = {}
  /\ \A w \in EvWebviews : js_event_listeners[w] = NoListeners /\ installed[w] = {}

\* thread t is at the statement of its call that reads or changes the table
\* of w
AtTable(t, w) == Busy(t) /\ thread[t].w = w /\ StepOf(t) \in {"insert", "remove", "match"}

\* C31: concurrent listen_js and unlisten_js calls on a webview lose no
\* update: the calls reach their table statement one at a time, each insert
\* adds its id to the set the key had and each removal takes its id alone
\* out, every other key and every other step leaving the table as it was;
\* so the table is the one the same mutations give one after the other.
C31_NoLostUpdate ==
  [][ \A w \in EvWebviews :
        LET before == js_event_listeners[w]
            after == js_event_listeners'[w]
            inserting == {t \in Threads : AtTable(t, w) /\ StepOf(t) = "insert"
                                            /\ thread'[t] # thread[t]}
            removing == {t \in Threads : AtTable(t, w) /\ StepOf(t) = "remove"
                                           /\ thread'[t] # thread[t]}
        IN /\ Cardinality({t \in Threads : AtTable(t, w)}) <= 1
           /\ \A t \in inserting :
                /\ IdsOf(after) = IdsOf(before) \cup {thread[t].id}
                /\ \A k \in DOMAIN before :
                     k \in DOMAIN after /\ before[k] \subseteq after[k]
           /\ \A t \in removing :
                /\ IdsOf(after) = IdsOf(before) \ {thread[t].id}
                /\ \A k \in DOMAIN after :
                     k \in DOMAIN before /\ after[k] = before[k] \ {thread[t].id}
           /\ (inserting = {} /\ removing = {}) => after = before
    ]_vars

\* C31 witness: two listen_js calls register under one key of one webview
\* at the same time: one holds the lock and is about to insert, the other
\* waits for the lock.
C31_Witness ==
  \E t, u \in Threads :
    /\ t # u
    /\ thread[t].op = "listen_js" /\ thread[u].op = "listen_js"
    /\ thread[t].w = thread[u].w
    /\ thread[t].source = thread[u].source /\ thread[t].event = thread[u].event
    /\ StepOf(t) = "insert" /\ lock[thread[t].w] = t
    /\ StepOf(u) = "lock"

====
